---------------------------- MODULE Spec2Model ----------------------------
(***************************************************************************)
(* Tax engine of the InTaxAssist backend: the FinancialData model          *)
(* (backend/models.py), the static slab and deduction-limit tables         *)
(* (backend/config.py) and TaxCalculatorService (the tax_calculator.py     *)
(* source held in script_6.py).                                            *)
(*                                                                         *)
(* Money amounts of a FinancialData are whole rupees.  Tax amounts         *)
(* (slab tax, tax_before_cess, cess, total_tax, refund_or_payable) are     *)
(* fixed-point numbers with denominator Scale: the value v stands for      *)
(* v / Scale rupees.  Scale is chosen so that "x * (rate / 100)" and       *)
(* "tax * 0.04" of the source are exact for every whole-rupee income.      *)
(***************************************************************************)
EXTENDS Integers, Sequences, FiniteSets, TLC

VARIABLES raw,       \* keyword arguments given to FinancialData(...)
          year,      \* TaxCalculationRequest.assessment_year
          status,    \* "idle" | "valid" | "rejected" (pydantic ValidationError)
          fd,        \* the constructed FinancialData, or NoData
          resp,      \* TaxCalculationResponse of calculate_comprehensive_tax, or NoResult
          cmp,       \* TaxRegimeComparison of compare_regimes, or NoResult
          prev,      \* the first request served: [fd, year, resp], or NoResult
          service,   \* the fields of the module-level TaxCalculatorService
          lookup,    \* the outcome of a slab lookup by regime key, or NoResult
          calls,     \* the calls in flight on the service, by caller
          app,       \* main.py: services_available and the position of startup
          reply,     \* the last HTTP response, or NoResult
          chatbot,   \* the fields of the module-level ChatbotService
          parser     \* the module-level DocumentParserService and its last result

engineVars == <<raw, year, status, fd, resp, cmp, prev, service, lookup>>

appVars == <<calls, app, reply, chatbot, parser>>

vars == <<raw, year, status, fd, resp, cmp, prev, service, lookup,
          calls, app, reply, chatbot, parser>>

Min(a, b) == IF a <= b THEN a ELSE b
Max(a, b) == IF a >= b THEN a ELSE b
Abs(a) == IF a >= 0 THEN a ELSE 0 - a

\* Optional[float]: <<>> is None, <<v>> is the value v.
None == << >>
Some(v) == << v >>

NoData == [kind |-> "none"]
NoResult == [kind |-> "none"]

---------------------------------------------------------------------------
(* backend/models.py: FinancialData                                        *)

IncomeFields == {"basic_salary", "hra", "special_allowance", "other_allowances", "bonus",
                 "interest_income", "rental_income", "capital_gains", "other_income"}

SectionFields == {"section_80c", "section_80d", "section_80g", "section_24",
                  "section_80ccd1b", "section_80e", "section_80tta"}

CommonFields == {"standard_deduction", "professional_tax"}

PaymentFields == {"tds_deducted", "advance_tax"}

FieldNames == IncomeFields \cup SectionFields \cup CommonFields \cup PaymentFields

\* Field(default=...)
FieldDefault(f) == IF f = "standard_deduction" THEN 50000 ELSE 0

\* Field(ge=0): every field but standard_deduction declares it.
FieldGe(f) == IF f = "standard_deduction" THEN None ELSE Some(0)

\* Field(le=...): the five capped fields.
FieldLe(f) ==
    CASE f = "section_80c" -> Some(150000)
      [] f = "section_80d" -> Some(25000)
      [] f = "section_80ccd1b" -> Some(50000)
      [] f = "section_80tta" -> Some(10000)
      [] f = "professional_tax" -> Some(2500)
      [] OTHER -> None

\* The constraint check pydantic runs on a field before the class validators:
\* a value outside [ge, le] raises ValidationError.
FieldConstraintOk(f, v) ==
    /\ (FieldGe(f) # None => v >= FieldGe(f)[1])
    /\ (FieldLe(f) # None => v <= FieldLe(f)[1])

\* @validator('section_80c') / @validator('section_80d'): run on a value that
\* passed the field's constraints.
validate_80c_limit(v) == Min(v, 150000)
validate_80d_limit(v) == Min(v, 25000)

FieldValidator(f, v) ==
    CASE f = "section_80c" -> validate_80c_limit(v)
      [] f = "section_80d" -> validate_80d_limit(v)
      [] OTHER -> v

\* FinancialData(**kwargs): ValidationError when a field breaks a constraint,
\* otherwise the record of validated values.
FinancialDataOk(kwargs) == \A f \in FieldNames : FieldConstraintOk(f, kwargs[f])

FinancialData(kwargs) == [f \in FieldNames |-> FieldValidator(f, kwargs[f])]

\* Mutant of gross_salary: the bonus left out.
GrossSalaryWithoutBonus(d) ==
    d["basic_salary"] + d["hra"] + d["special_allowance"] + d["other_allowances"]

gross_salary(d) ==
    d["basic_salary"] + d["hra"] + d["special_allowance"] + d["other_allowances"] + d["bonus"]

total_income(d) ==
    gross_salary(d) + d["interest_income"] + d["rental_income"] + d["capital_gains"]
        + d["other_income"]

---------------------------------------------------------------------------
(* backend/config.py: static tables                                        *)

Slab(lo, hi, r) == [min |-> lo, max |-> hi, rate |-> r]

OldSlabs2024 == << Slab(0, Some(250000), 0), Slab(250000, Some(500000), 5),
                   Slab(500000, Some(1000000), 20), Slab(1000000, None, 30) >>

\* Mutant of NewSlabs2024: 20 for 15 in the fourth slab.
NewSlabs2024WrongRate ==
    << Slab(0, Some(300000), 0), Slab(300000, Some(600000), 5),
       Slab(600000, Some(900000), 10), Slab(900000, Some(1200000), 20),
       Slab(1200000, Some(1500000), 20), Slab(1500000, None, 30) >>

NewSlabs2024 == << Slab(0, Some(300000), 0), Slab(300000, Some(600000), 5),
                   Slab(600000, Some(900000), 10), Slab(900000, Some(1200000), 15),
                   Slab(1200000, Some(1500000), 20), Slab(1500000, None, 30) >>

\* Mutant of OldSlabs2023: the third slab starts above the end of the second.
OldSlabs2023WithGap ==
    << Slab(0, Some(250000), 0), Slab(250000, Some(500000), 5),
       Slab(500001, Some(1000000), 20), Slab(1000000, None, 30) >>

OldSlabs2023 == << Slab(0, Some(250000), 0), Slab(250000, Some(500000), 5),
                   Slab(500000, Some(1000000), 20), Slab(1000000, None, 30) >>

NewSlabs2023 == << Slab(0, Some(300000), 0), Slab(300000, Some(600000), 5),
                   Slab(600000, Some(900000), 10), Slab(900000, Some(1200000), 15),
                   Slab(1200000, Some(1500000), 20), Slab(1500000, None, 30) >>

TaxYears == {"2024-25", "2023-24"}

Regimes == {"old", "new"}

TAX_SLABS(y, r) ==
    CASE y = "2024-25" /\ r = "old" -> OldSlabs2024
      [] y = "2024-25" /\ r = "new" -> NewSlabs2024
      [] y = "2023-24" /\ r = "old" -> OldSlabs2023
      [] y = "2023-24" /\ r = "new" -> NewSlabs2023

\* DEDUCTION_LIMITS[...], the entries the calculator reads
DEDUCTION_LIMITS_section_80c == 150000
DEDUCTION_LIMITS_section_80d_individual == 25000
DEDUCTION_LIMITS_section_80ccd1b == 50000
DEDUCTION_LIMITS_section_80tta == 10000

---------------------------------------------------------------------------
(* tax_calculator.py (script_6.py): TaxCalculatorService                   *)

\* Denominator of the fixed-point tax amounts.
Scale == 100 * 25

\* self.cess_rate = 0.04, as a percentage.
CessRatePercent == 4

\* TaxCalculatorService.__init__
TaxCalculatorService == [current_year |-> "2024-25", cess_rate |-> CessRatePercent]

\* Mutant of SelfAfterCall: a call clears self.cess_rate.
SelfWithCessRateCleared(self) == [self EXCEPT !.cess_rate = 0]

\* The fields of the service after a call of one of its methods: no method
\* assigns to self.
SelfAfterCall(self) == self

\* x * (p / 100) on fixed-point x, truncated to a multiple of 1 / Scale; written
\* so that no intermediate product leaves the machine integers.
MulPercent(x, p) == (x \div 100) * p + ((x % 100) * p) \div 100

\* rate / 100, in fixed point.
RateFraction(rate) == rate * (Scale \div 100)

\* slab["max"] if slab["max"] else float('inf'): None and 0 are both falsy.
IsUnbounded(slab) == slab.max = None \/ slab.max[1] = 0

\* Mutant of SlabRange: the slab's upper limit taken for its width.
SlabRangeIsUpperLimit(slab, remaining_income) ==
    IF IsUnbounded(slab) THEN remaining_income ELSE slab.max[1]

\* slab_range = max_amount - min_amount if max_amount != float('inf') else remaining_income
SlabRange(slab, remaining_income) ==
    IF IsUnbounded(slab) THEN remaining_income ELSE slab.max[1] - slab.min

\* Mutant of SlabTaxable: the whole slab taxed once it is entered.
SlabTaxableWholeSlab(remaining_income, slab_range) == slab_range

\* slab_taxable = min(remaining_income, slab_range)
SlabTaxable(remaining_income, slab_range) == Min(remaining_income, slab_range)

\* slab_tax = slab_taxable * (rate / 100)
SlabTax(slab_taxable, rate) == slab_taxable * RateFraction(rate)

\* Mutant of AddSlabTax: "=" written for "+=".
AddSlabTaxOverwrites(total_tax, slab_tax) == slab_tax

\* total_tax += slab_tax
AddSlabTax(total_tax, slab_tax) == total_tax + slab_tax

\* Mutant of TaxSlabDetail: every entry recorded as starting at 0.
TaxSlabDetailFromZero(slab, slab_tax) ==
    [min_amount |-> 0,
     max_amount |-> IF IsUnbounded(slab) THEN None ELSE slab.max,
     rate |-> slab.rate,
     tax_amount |-> slab_tax]

\* TaxSlabDetail(min_amount=..., max_amount=..., rate=..., tax_amount=slab_tax)
TaxSlabDetail(slab, slab_tax) ==
    [min_amount |-> slab.min,
     max_amount |-> IF IsUnbounded(slab) THEN None ELSE slab.max,
     rate |-> slab.rate,
     tax_amount |-> slab_tax]

\* The for loop of _calculate_slab_tax from slab i on.
RECURSIVE SlabLoop(_, _, _, _, _)
SlabLoop(tax_slabs, i, remaining_income, total_tax, slab_details) ==
    IF i > Len(tax_slabs) \/ remaining_income <= 0
    THEN [total_tax |-> total_tax, slab_details |-> slab_details]
    ELSE LET slab == tax_slabs[i]
             slab_range == SlabRange(slab, remaining_income)
             slab_taxable == SlabTaxable(remaining_income, slab_range)
             slab_tax == SlabTax(slab_taxable, slab.rate)
             total == AddSlabTax(total_tax, slab_tax)
             details == Append(slab_details, TaxSlabDetail(slab, slab_tax))
             remaining == remaining_income - slab_taxable
         IN  IF remaining <= 0 \/ IsUnbounded(slab)
             THEN [total_tax |-> total, slab_details |-> details]
             ELSE SlabLoop(tax_slabs, i + 1, remaining, total, details)

_calculate_slab_tax(taxable_income, tax_slabs) ==
    SlabLoop(tax_slabs, 1, taxable_income, 0, << >>)

\* Mutant of get_tax_slabs: no slabs for a year that is not in the table.
GetTaxSlabsWithoutFallback(regime, assessment_year) ==
    IF assessment_year \in TaxYears
    THEN TAX_SLABS(assessment_year, regime)
    ELSE << >>

\* The KeyError of TAX_SLABS[...][regime] leaves get_tax_slabs when the regime
\* is no key of the table: the except branch looks the same key up again.
GetTaxSlabsRaises(regime, assessment_year) == regime \notin Regimes

\* try TAX_SLABS[assessment_year][regime] except KeyError: TAX_SLABS["2024-25"][regime]
\* (the value returned when no KeyError leaves the method)
get_tax_slabs(regime, assessment_year) ==
    IF assessment_year \in TaxYears
    THEN TAX_SLABS(assessment_year, regime)
    ELSE TAX_SLABS("2024-25", regime)

\* Mutant of _calculate_old_regime_deductions: professional tax left out.
OldDeductionsWithoutProfessionalTax(d) ==
    d["standard_deduction"]
    + Min(d["section_80c"], DEDUCTION_LIMITS_section_80c)
    + Min(d["section_80d"], DEDUCTION_LIMITS_section_80d_individual)
    + d["section_80g"]
    + d["section_24"]
    + Min(d["section_80ccd1b"], DEDUCTION_LIMITS_section_80ccd1b)
    + d["section_80e"]
    + Min(d["section_80tta"], DEDUCTION_LIMITS_section_80tta)

\* Mutant of _calculate_old_regime_deductions: the standard deduction left out.
OldDeductionsWithoutStandardDeduction(d) ==
    Min(d["section_80c"], DEDUCTION_LIMITS_section_80c)
    + Min(d["section_80d"], DEDUCTION_LIMITS_section_80d_individual)
    + d["section_80g"]
    + d["section_24"]
    + Min(d["section_80ccd1b"], DEDUCTION_LIMITS_section_80ccd1b)
    + d["section_80e"]
    + Min(d["section_80tta"], DEDUCTION_LIMITS_section_80tta)
    + d["professional_tax"]

_calculate_old_regime_deductions(d) ==
    d["standard_deduction"]
    + Min(d["section_80c"], DEDUCTION_LIMITS_section_80c)
    + Min(d["section_80d"], DEDUCTION_LIMITS_section_80d_individual)
    + d["section_80g"]
    + d["section_24"]
    + Min(d["section_80ccd1b"], DEDUCTION_LIMITS_section_80ccd1b)
    + d["section_80e"]
    + Min(d["section_80tta"], DEDUCTION_LIMITS_section_80tta)
    + d["professional_tax"]

\* Mutant of _calculate_new_regime_deductions: Section 80C carried over from
\* the old regime.
NewDeductionsWith80c(d) ==
    d["standard_deduction"]
    + Min(d["section_80c"], DEDUCTION_LIMITS_section_80c)
    + d["professional_tax"]

_calculate_new_regime_deductions(d) ==
    d["standard_deduction"] + d["professional_tax"]

\* total_deductions by regime (the if/else of _calculate_regime_tax)
RegimeDeductions(d, regime) ==
    IF regime = "old" THEN _calculate_old_regime_deductions(d)
    ELSE _calculate_new_regime_deductions(d)

\* Mutant of TaxableIncome: the max(0, ...) guard dropped.
TaxableIncomeUnguarded(gross_income, total_deductions) == gross_income - total_deductions

\* taxable_income = max(0, gross_income - total_deductions)
TaxableIncome(gross_income, total_deductions) == Max(0, gross_income - total_deductions)

\* Mutant of Cess: the tax rounded down to whole rupees before the multiplication.
CessOnRoundedTax(tax_before_cess) ==
    MulPercent((tax_before_cess \div Scale) * Scale, service.cess_rate)

\* cess = tax_calculation["total_tax"] * self.cess_rate
Cess(tax_before_cess) == MulPercent(tax_before_cess, service.cess_rate)

\* total_tax = tax_calculation["total_tax"] + cess
TotalTax(tax_before_cess, cess) == tax_before_cess + cess

\* Mutant of RoundHalfEven: the quotient truncated.
RoundDown(n, d) == n \div d

\* n / d rounded to the nearest integer, ties to even (Python's round), n, d >= 0
RoundHalfEven(n, d) ==
    LET q == n \div d
        r == n % d
    IN  IF 2 * r > d \/ (2 * r = d /\ q % 2 = 1) THEN q + 1 ELSE q

\* round((total_tax / gross_income * 100) if gross_income > 0 else 0, 2),
\* in hundredths of a percent
EffectiveTaxRate(total_tax, gross_income) ==
    IF gross_income > 0
    THEN LET k == (100 * 100) \div Scale
             q == total_tax \div gross_income
             r == total_tax % gross_income
         IN  k * q + RoundHalfEven(k * r, gross_income)
    ELSE 0

\* Mutant of RefundOrPayable: the advance tax paid left out.
RefundOrPayableWithoutAdvanceTax(total_tax, d) == total_tax - d["tds_deducted"] * Scale

\* refund_or_payable = total_tax - (tds_deducted + advance_tax)
RefundOrPayable(total_tax, d) ==
    total_tax - (d["tds_deducted"] + d["advance_tax"]) * Scale

_calculate_regime_tax(d, regime, assessment_year) ==
    LET gross_income == total_income(d)
        total_deductions == RegimeDeductions(d, regime)
        taxable_income == TaxableIncome(gross_income, total_deductions)
        tax_slabs == get_tax_slabs(regime, assessment_year)
        tax_calculation == _calculate_slab_tax(taxable_income, tax_slabs)
        cess == Cess(tax_calculation.total_tax)
        total_tax == TotalTax(tax_calculation.total_tax, cess)
    IN  [regime |-> regime,
         gross_income |-> gross_income,
         taxable_income |-> taxable_income,
         total_deductions |-> total_deductions,
         tax_before_cess |-> tax_calculation.total_tax,
         cess |-> cess,
         total_tax |-> total_tax,
         tax_slabs |-> tax_calculation.slab_details,
         effective_tax_rate |-> EffectiveTaxRate(total_tax, gross_income),
         tds_deducted |-> d["tds_deducted"],
         advance_tax |-> d["advance_tax"],
         refund_or_payable |-> RefundOrPayable(total_tax, d)]

\* Mutant of RecommendedRegime: "<" written for "<=", a tie goes to NEW.
RecommendedRegimeStrict(old_tax, new_tax) == IF old_tax < new_tax THEN "old" ELSE "new"

\* if old.total_tax <= new.total_tax: OLD else NEW
RecommendedRegime(old_tax, new_tax) == IF old_tax <= new_tax THEN "old" ELSE "new"

\* savings_amount by branch of calculate_comprehensive_tax
SavingsAmount(old_tax, new_tax) ==
    IF old_tax <= new_tax THEN new_tax - old_tax ELSE old_tax - new_tax

\* calculation_timestamp (datetime.now) is left out of the response.
calculate_comprehensive_tax(d, assessment_year) ==
    LET old_regime_details == _calculate_regime_tax(d, "old", assessment_year)
        new_regime_details == _calculate_regime_tax(d, "new", assessment_year)
    IN  [old_regime |-> old_regime_details,
         new_regime |-> new_regime_details,
         recommended_regime |->
             RecommendedRegime(old_regime_details.total_tax, new_regime_details.total_tax),
         savings_amount |->
             SavingsAmount(old_regime_details.total_tax, new_regime_details.total_tax)]

\* difference = abs(old_tax - new_tax)
Difference(old_tax, new_tax) == Abs(old_tax - new_tax)

\* if old_tax < new_tax: OLD elif new_tax < old_tax: NEW else: OLD
ComparisonRecommended(old_tax, new_tax) ==
    IF old_tax < new_tax THEN "old"
    ELSE IF new_tax < old_tax THEN "new"
    ELSE "old"

ComparisonReason(old_tax, new_tax) ==
    IF old_tax < new_tax THEN "old_saves"
    ELSE IF new_tax < old_tax THEN "new_saves"
    ELSE "similar"

Breakdown(details) ==
    [gross_income |-> details.gross_income,
     total_deductions |-> details.total_deductions,
     taxable_income |-> details.taxable_income,
     tax_liability |-> details.total_tax,
     effective_rate |-> details.effective_tax_rate]

compare_regimes(d, assessment_year) ==
    LET result == calculate_comprehensive_tax(d, assessment_year)
        old_tax == result.old_regime.total_tax
        new_tax == result.new_regime.total_tax
    IN  [old_regime_tax |-> old_tax,
         new_regime_tax |-> new_tax,
         difference |-> Difference(old_tax, new_tax),
         recommended |-> ComparisonRecommended(old_tax, new_tax),
         reason |-> ComparisonReason(old_tax, new_tax),
         breakdown |-> [old_regime |-> Breakdown(result.old_regime),
                        new_regime |-> Breakdown(result.new_regime)]]

\* The response calculate_comprehensive_tax builds from the two regime details.
ComprehensiveResponse(old_regime_details, new_regime_details) ==
    [old_regime |-> old_regime_details,
     new_regime |-> new_regime_details,
     recommended_regime |->
         RecommendedRegime(old_regime_details.total_tax, new_regime_details.total_tax),
     savings_amount |->
         SavingsAmount(old_regime_details.total_tax, new_regime_details.total_tax)]

\* The comparison compare_regimes builds from the result of
\* calculate_comprehensive_tax.
ComparisonOf(result) ==
    LET old_tax == result.old_regime.total_tax
        new_tax == result.new_regime.total_tax
    IN  [old_regime_tax |-> old_tax,
         new_regime_tax |-> new_tax,
         difference |-> Difference(old_tax, new_tax),
         recommended |-> ComparisonRecommended(old_tax, new_tax),
         reason |-> ComparisonReason(old_tax, new_tax),
         breakdown |-> [old_regime |-> Breakdown(result.old_regime),
                        new_regime |-> Breakdown(result.new_regime)]]

\* Mutant of DataAfterCall: the standard deduction of the record cleared.
DataWithStandardDeductionCleared(d) == [d EXCEPT !["standard_deduction"] = 0]

\* The FinancialData record after a method of the service read it: the methods
\* read its fields and properties and assign to none.
DataAfterCall(d) == d

---------------------------------------------------------------------------
(* The HTTP application and the two other services                         *)

\* main.py after its imports, before the services are constructed; started
\* lists the initialize() calls the lifespan handler has begun, in order.
\* models_importable says whether "from .models import ..." succeeds in this
\* deployment; the model settles it with the construction of the services.
Imported ==
    [phase |-> "imported", services_available |-> FALSE, models_importable |-> FALSE,
     started |-> << >>]

\* The users and sessions of the chatbot; "" stands for an id that is None or
\* empty. session_key is f"{user_id}_{session_id}", or "anonymous" when either
\* id is falsy.
UserIds == {"", "a", "a_b"}

SessionIds == {"", "c", "b_c"}

session_key(user_id, session_id) ==
    IF user_id # "" /\ session_id # "" THEN user_id \o "_" \o session_id ELSE "anonymous"

SessionKeys == {session_key(u, sid) : u \in UserIds, sid \in SessionIds}

\* ChatbotService.__init__: no chain, no memories, no user sessions (None at
\* every key). langchain_available is the module's LANGCHAIN_AVAILABLE, which
\* the model settles with initialize().
ChatbotService ==
    [qa_chain |-> FALSE,
     langchain_available |-> TRUE,
     memories |-> [k \in SessionKeys |-> None],
     user_sessions |-> [k \in SessionKeys |-> None]]

\* DocumentParserService.__init__
DocumentParserService == [extraction_chain |-> FALSE]

\* Mutant of LifespanNext: chatbot.initialize() awaited again instead of
\* falling through to the yield.
LifespanNeverYields(phase, services_available) ==
    CASE phase = "constructed" ->
             IF services_available THEN "document_parser.initialize" ELSE "serving"
      [] phase = "document_parser.initialize" -> "chatbot.initialize"
      [] phase = "chatbot.initialize" -> "chatbot.initialize"

\* The position of the lifespan handler after the step at `phase`: with the
\* services available it awaits document_parser.initialize(), then
\* chatbot.initialize(), and then reaches its yield; without them it reaches the
\* yield at once.
LifespanNext(phase, services_available) ==
    CASE phase = "constructed" ->
             IF services_available THEN "document_parser.initialize" ELSE "serving"
      [] phase = "document_parser.initialize" -> "chatbot.initialize"
      [] phase = "chatbot.initialize" -> "serving"

\* How an initialize() call ends: the chain is set up, no API key is found,
\* LangChain could not be imported, or an exception is caught inside
\* initialize(). It returns in each case.
InitializeOutcomes == {"ok", "no_api_key", "no_langchain", "error"}

\* http_exception_handler: the response to HTTPException(status_code, detail)
HttpError(status_code, detail) ==
    [status |-> status_code, body |-> [error |-> TRUE, message |-> detail]]

HttpOk(body) == [status |-> 200, body |-> body]

\* GET /api/health
health_check(services_available) ==
    HttpOk([status |-> "healthy",
            services |-> [document_parser |-> services_available,
                          tax_calculator |-> services_available,
                          chatbot |-> services_available]])

\* An assessment_year that arrives as a JSON array: the request body is a plain
\* dict, so the value reaches the slab lookup as a list, which is no
\* dictionary key (TypeError: unhashable type).
JsonArrayYear == "[\"2024-25\"]"

Hashable(assessment_year) == assessment_year # JsonArrayYear

\* The mock result of calculate_tax when the services are not available;
\* rates in hundredths of a percent.
MockCalculation ==
    [old_regime |-> [total_tax |-> 95000 * Scale, effective_tax_rate |-> 1580,
                     refund_or_payable |-> 50000 * Scale],
     new_regime |-> [total_tax |-> 87000 * Scale, effective_tax_rate |-> 1450,
                     refund_or_payable |-> 42000 * Scale],
     recommended_regime |-> "new",
     savings_amount |-> 8000 * Scale]

\* POST /api/calculate-tax: every exception of the handler's body becomes
\* HTTPException(500).
calculate_tax(services_available, financial_data, assessment_year) ==
    IF services_available
    THEN IF ~FinancialDataOk(financial_data) THEN HttpError(500, "ValidationError")
         ELSE IF ~Hashable(assessment_year) THEN HttpError(500, "TypeError")
         ELSE HttpOk(calculate_comprehensive_tax(FinancialData(financial_data),
                                                 assessment_year))
    ELSE HttpOk(MockCalculation)

\* The slab lists written out in the handler of GET /api/tax-slabs/{regime}.
EndpointOldSlabs ==
    << Slab(0, Some(250000), 0), Slab(250000, Some(500000), 5),
       Slab(500000, Some(1000000), 20), Slab(1000000, None, 30) >>

EndpointNewSlabs ==
    << Slab(0, Some(300000), 0), Slab(300000, Some(600000), 5),
       Slab(600000, Some(900000), 10), Slab(900000, Some(1200000), 15),
       Slab(1200000, Some(1500000), 20), Slab(1500000, None, 30) >>

\* GET /api/tax-slabs/{regime}: if regime == "old" ... else ...
api_get_tax_slabs(regime, assessment_year) ==
    HttpOk([regime |-> regime,
            assessment_year |-> assessment_year,
            slabs |-> IF regime = "old" THEN EndpointOldSlabs ELSE EndpointNewSlabs])

\* The comparison written out in the handler of POST /api/compare-regimes.
MockComparison ==
    [old_regime_tax |-> 95000 * Scale,
     new_regime_tax |-> 87000 * Scale,
     difference |-> 8000 * Scale,
     recommended |-> "new",
     reason |-> "new_saves",
     breakdown |->
         [old_regime |-> [gross_income |-> 1000000, total_deductions |-> 200000,
                          taxable_income |-> 800000, tax_liability |-> 95000 * Scale,
                          effective_rate |-> 1580],
          new_regime |-> [gross_income |-> 1000000, total_deductions |-> 50000,
                          taxable_income |-> 950000, tax_liability |-> 87000 * Scale,
                          effective_rate |-> 1450]]]

\* POST /api/compare-regimes: financial_data is read from the request and not
\* used.
compare_tax_regimes(financial_data) == HttpOk(MockComparison)

---------------------------------------------------------------------------
(* Document parsing (services/document_parser.py)                          *)

\* A document text is a sequence of lines "<label>: Rs. <amount>", held as
\* records [label, amount]; the empty sequence is the empty string.
\* PatternFields(label) is the set of fields one of whose regular expressions
\* in _rule_based_extraction matches such a line. "home loan interest" is
\* matched by a section_24 pattern and by "interest[:\s]+" of interest_income;
\* "tds deducted" and "rental income" are followed by no amount where the
\* patterns want one and match nothing.
PatternFields(label) ==
    CASE label = "basic salary" -> {"basic_salary"}
      [] label = "hra" -> {"hra"}
      [] label = "special allowance" -> {"special_allowance"}
      [] label = "section 80c" -> {"section_80c"}
      [] label = "ppf" -> {"section_80c"}
      [] label = "section 80d" -> {"section_80d"}
      [] label = "health insurance" -> {"section_80d"}
      [] label = "home loan interest" -> {"section_24", "interest_income"}
      [] label = "professional tax" -> {"professional_tax"}
      [] OTHER -> {}

\* The fields that have patterns; each is assigned the largest amount matched,
\* 0 when nothing matched. The others keep the defaults of extracted_data.
PatternedFields ==
    {"basic_salary", "hra", "special_allowance", "other_allowances", "bonus",
     "section_80c", "section_80d", "section_24", "tds_deducted",
     "professional_tax", "interest_income"}

RECURSIVE MaxMatch(_, _, _)
MaxMatch(text_content, field, i) ==
    IF i > Len(text_content) THEN 0
    ELSE LET rest == MaxMatch(text_content, field, i + 1)
         IN  IF field \in PatternFields(text_content[i].label)
             THEN Max(text_content[i].amount, rest)
             ELSE rest

_rule_based_extraction(text_content) ==
    [f \in FieldNames |->
        IF f \in PatternedFields THEN MaxMatch(text_content, f, 1) ELSE FieldDefault(f)]

\* The "validation rules" of _validate_extracted_data: min(value, cap)
ValidationCap(f, v) ==
    CASE f = "section_80c" -> Min(v, 150000)
      [] f = "section_80d" -> Min(v, 25000)
      [] f = "section_80ccd1b" -> Min(v, 50000)
      [] f = "section_80tta" -> Min(v, 10000)
      [] f = "professional_tax" -> Min(v, 2500)
      [] OTHER -> v

\* data is the decoded JSON object: a function from some field names to
\* Some(number), or None for a value float() cannot convert.
_validate_extracted_data(data) ==
    [f \in FieldNames |->
        ValidationCap(f,
            IF f \in DOMAIN data /\ data[f] # None
            THEN Max(0, data[f][1])
            ELSE FieldDefault(f))]

\* _extract_financial_data_groq with no fallback: what it would return if a
\* failed AI extraction yielded the validated defaults.
GroqExtractionWithoutFallback(extraction_chain, text_content, llm) ==
    IF extraction_chain /\ llm.kind = "json"
    THEN _validate_extracted_data(llm.data)
    ELSE _validate_extracted_data(<< >>)

\* llm is what extraction_chain.run does in this call: it raises, it returns
\* text with no JSON in it, it returns a JSON number (json.loads succeeds and
\* "field in data" raises TypeError), or it returns a JSON object.
_extract_financial_data_groq(extraction_chain, text_content, llm) ==
    IF ~extraction_chain THEN _rule_based_extraction(text_content)
    ELSE CASE llm.kind = "json" -> _validate_extracted_data(llm.data)
           [] llm.kind = "text" -> _rule_based_extraction(text_content)
           [] llm.kind = "json_number" -> _rule_based_extraction(text_content)
           [] llm.kind = "raises" -> _rule_based_extraction(text_content)

\* Confidence scores are held in units of 1 / ConfidenceScale, which makes
\* every term of _calculate_confidence and of the chatbot's
\* _calculate_response_confidence an integer.
ConfidenceScale == 13 * 11 * 6 * 1000 * 100

Confidence(hundredths) == hundredths * (ConfidenceScale \div 100)

financial_keywords ==
    {"salary", "allowance", "deduction", "tax", "income", "investment",
     "80c", "80d", "hra", "pf", "insurance", "tds", "form 16"}

\* The keywords that occur in a line with this label.
KeywordsIn(label) ==
    CASE label = "basic salary" -> {"salary"}
      [] label = "hra" -> {"hra"}
      [] label = "special allowance" -> {"allowance"}
      [] label = "section 80c" -> {"80c"}
      [] label = "ppf" -> {"pf"}
      [] label = "section 80d" -> {"80d"}
      [] label = "health insurance" -> {"insurance"}
      [] label = "professional tax" -> {"tax"}
      [] label = "tds deducted" -> {"tds"}
      [] label = "rental income" -> {"income"}
      [] OTHER -> {}

RECURSIVE Digits(_)
Digits(n) == IF n < 10 THEN 1 ELSE 1 + Digits(n \div 10)

\* len(text_content): "<label>: Rs. <amount>" and a newline per line
RECURSIVE TextLength(_, _)
TextLength(text_content, i) ==
    IF i > Len(text_content) THEN 0
    ELSE Len(text_content[i].label) + 6 + Digits(text_content[i].amount) + 1
         + TextLength(text_content, i + 1)

_calculate_confidence(extraction_chain, text_content, extracted_data) ==
    LET non_zero_fields == Cardinality({f \in FieldNames : extracted_data[f] > 0})
        keyword_count ==
            Cardinality({k \in financial_keywords :
                            \E i \in 1..Len(text_content) : k \in KeywordsIn(text_content[i].label)})
        text_length == Min(TextLength(text_content, 1), 1000)
        \* 0.4 * n / 20,  0.3 * k / 13,  0.15 * len / 1000,  0.15
        overall_confidence ==
            non_zero_fields * (ConfidenceScale \div 50)
            + keyword_count * 3 * (ConfidenceScale \div 130)
            + text_length * 15 * (ConfidenceScale \div 100000)
            + (IF extraction_chain THEN Confidence(15) ELSE 0)
    IN  Min(Max(overall_confidence, Confidence(10)), Confidence(95))

_generate_warnings(extracted_data) ==
    {w \in {"basic_salary_high", "section_80c_over_limit", "section_80d_over_limit",
            "limited_data"} :
        \/ w = "basic_salary_high" /\ extracted_data["basic_salary"] > 50000000
        \/ w = "section_80c_over_limit" /\ extracted_data["section_80c"] > 150000
        \/ w = "section_80d_over_limit" /\ extracted_data["section_80d"] > 25000
        \/ w = "limited_data"
              /\ \A f \in FieldNames \ {"standard_deduction"} : extracted_data[f] = 0
              /\ extracted_data["standard_deduction"] <= 50000}

\* The text a document of the generic kind is taken to hold (every content
\* type but text/plain, a filename with none of the known keywords).
GenericDocumentText ==
    << [label |-> "basic salary", amount |-> 600000],
       [label |-> "hra", amount |-> 240000],
       [label |-> "special allowance", amount |-> 80000],
       [label |-> "section 80c", amount |-> 150000],
       [label |-> "section 80d", amount |-> 25000],
       [label |-> "tds deducted", amount |-> 88920],
       [label |-> "home loan interest", amount |-> 180000] >>

\* file_content is Some(text) for bytes that decode to text and None for
\* bytes that are not UTF-8: decode raises and the except returns "".
_extract_text(file_content, filename, content_type) ==
    IF content_type = "text/plain"
    THEN IF file_content = None THEN << >> ELSE file_content[1]
    ELSE GenericDocumentText

\* parse_document. extraction_chain is set only when LangChain was imported,
\* so the test "LANGCHAIN_AVAILABLE and self.extraction_chain" is the test of
\* extraction_chain. FinancialData(**extracted_data) raises when a value
\* breaks a field constraint; the except branch answers with the defaults.
parse_document(extraction_chain, file_content, filename, content_type, llm) ==
    LET text_content == _extract_text(file_content, filename, content_type)
        use_groq == extraction_chain /\ text_content # << >>
        extracted_data ==
            IF use_groq
            THEN _extract_financial_data_groq(extraction_chain, text_content, llm)
            ELSE _rule_based_extraction(text_content)
        confidence_score ==
            IF use_groq
            THEN _calculate_confidence(extraction_chain, text_content, extracted_data)
            ELSE Confidence(60)
    IN  IF FinancialDataOk(extracted_data)
        THEN [success |-> TRUE,
              filename |-> filename,
              extracted_data |-> FinancialData(extracted_data),
              confidence_score |-> confidence_score,
              extracted_text |-> Some(text_content),
              warnings |-> _generate_warnings(extracted_data)]
        ELSE [success |-> FALSE,
              filename |-> filename,
              extracted_data |-> FinancialData([f \in FieldNames |-> FieldDefault(f)]),
              confidence_score |-> 0,
              extracted_text |-> None,
              warnings |-> {"error_parsing_document"}]

allowed_types ==
    {"application/pdf", "application/msword",
     "application/vnd.openxmlformats-officedocument.wordprocessingml.document",
     "image/jpeg", "image/png", "text/plain"}

\* The response of the demo mode of POST /api/upload
DemoParseResponse(filename) ==
    [success |-> TRUE,
     filename |-> filename,
     extracted_data |-> FinancialData([f \in FieldNames |-> FieldDefault(f)]),
     confidence_score |-> Confidence(50),
     extracted_text |-> None,
     warnings |-> {"demo_mode"}]

\* POST /api/upload. The two HTTPException(400) are raised inside the try of
\* the handler, whose "except Exception" catches them and raises
\* HTTPException(500) with the text of the caught exception. In the demo mode
\* the handler imports .models first: models_importable says whether that
\* import succeeds in this deployment.
upload_and_parse_document(services_available, extraction_chain, file, llm, models_importable) ==
    IF file.filename = "" THEN HttpError(500, "No file provided")
    ELSE IF file.content_type \notin allowed_types
    THEN HttpError(500, "Unsupported file type")
    ELSE IF services_available
    THEN HttpOk(parse_document(extraction_chain, file.content, file.filename,
                               file.content_type, llm))
    ELSE IF models_importable THEN HttpOk(DemoParseResponse(file.filename))
    ELSE HttpError(500, "ImportError")

---------------------------------------------------------------------------
(* The chatbot (services/chatbot.py, POST /api/chatbot)                    *)

\* A text is a sequence of lower-case words; a keyword or pattern is a
\* sequence of words too, and occurs in a text when its words do, in a row.
Occurs(phrase, words) ==
    \E i \in 1..(Len(words) - Len(phrase) + 1) :
        SubSeq(words, i, i + Len(phrase) - 1) = phrase

tax_keywords ==
    {<<"tax">>, <<"income">>, <<"deduction">>, <<"regime">>, <<"itr">>, <<"tds">>,
     <<"hra">>, <<"80c">>, <<"80d">>, <<"section">>, <<"investment">>, <<"salary">>,
     <<"filing">>, <<"saving">>, <<"exemption">>, <<"refund">>, <<"pan">>,
     <<"aadhar">>, <<"form16">>, <<"income", "tax">>, <<"tax", "planning">>,
     <<"tax", "saving">>, <<"tax", "regime">>, <<"capital", "gain">>, <<"nri">>,
     <<"house", "rent">>, <<"home", "loan">>, <<"insurance">>}

_is_tax_related_query(query) == \E keyword \in tax_keywords : Occurs(keyword, query)

\* The response outside the assistant's scope
ScopeResponse ==
    [response |-> <<"i", "specialize", "in", "indian", "tax", "questions">>,
     confidence |-> Confidence(90),
     follow_up_questions |-> <<"documents", "regime", "80c">>]

\* The response of the outer except of process_query
ErrorResponse ==
    [response |-> <<"i", "apologize", "but", "i", "encountered", "an", "error">>,
     confidence |-> 0,
     follow_up_questions |-> <<"documents", "regime", "save_tax">>]

\* context is absent, holds financial_data with a total_income, or holds
\* something financial_data.get cannot be called on (AttributeError).
_get_user_context_for_session(context) ==
    IF context.kind = "financial_data"
    THEN [has_financial_data |-> TRUE,
          income_level |-> IF context.total_income <= 0 THEN "unknown"
                           ELSE IF context.total_income > 1000000 THEN "high income"
                           ELSE IF context.total_income > 500000 THEN "medium income"
                           ELSE "lower income",
          regime_preference |-> "unknown"]
    ELSE [has_financial_data |-> FALSE, income_level |-> "unknown",
          regime_preference |-> "unknown"]

\* The patterns of _get_enhanced_fallback_response in the order of the dict,
\* with the confidence of each prepared response.
FallbackPatterns ==
    << [pattern |-> <<"80c">>, confidence |-> 90],
       [pattern |-> <<"80d">>, confidence |-> 90],
       [pattern |-> <<"hra">>, confidence |-> 90],
       [pattern |-> <<"new", "regime">>, confidence |-> 90],
       [pattern |-> <<"old", "regime">>, confidence |-> 90],
       [pattern |-> <<"document">>, confidence |-> 80],
       [pattern |-> <<"capital", "gain">>, confidence |-> 80],
       [pattern |-> <<"nri">>, confidence |-> 80],
       [pattern |-> <<"groq">>, confidence |-> 95] >>

\* Each prepared response is a text about its pattern; the default one
\* introduces the assistant.
RECURSIVE FallbackFrom(_, _)
FallbackFrom(query, i) ==
    IF i > Len(FallbackPatterns)
    THEN [response |-> <<"i", "am", "your", "ai", "tax", "assistant">>,
          confidence |-> Confidence(70)]
    ELSE IF Occurs(FallbackPatterns[i].pattern, query)
    THEN [response |-> <<"about">> \o FallbackPatterns[i].pattern,
          confidence |-> Confidence(FallbackPatterns[i].confidence)]
    ELSE FallbackFrom(query, i + 1)

_get_enhanced_fallback_response(query) == FallbackFrom(query, 1)

tax_terms ==
    {"section", "deduction", "regime", "tax", "rupee_sign", "income", "exemption",
     "investment", "filing", "salary", "tds"}

RECURSIVE WordsLength(_, _)
WordsLength(words, i) ==
    IF i > Len(words) THEN 0
    ELSE Len(words[i]) + (IF i < Len(words) THEN 1 ELSE 0) + WordsLength(words, i + 1)

Words(text) == {text[i] : i \in 1..Len(text)}

\* result is the dict the chain returned: its answer and the number of its
\* source documents.
_calculate_response_confidence(qa_chain, result, query) ==
    IF result.answer = << >> THEN Confidence(10)
    ELSE
    LET source_docs == Min(result.source_documents, 5)
        length == Min(WordsLength(result.answer, 1), 200)
        term_count == Cardinality(tax_terms \cap Words(result.answer))
        relevant_terms ==
            Cardinality({i \in 1..Len(query) : query[i] \in Words(result.answer)})
        \* 0.2 * n / 5,  0.2 * len / 200,  0.3 * t / 11,  0.3 * r / max(q, 1),  0.2
        overall_confidence ==
            source_docs * (ConfidenceScale \div 25)
            + length * (ConfidenceScale \div 1000)
            + term_count * 3 * (ConfidenceScale \div 110)
            + (relevant_terms * 3 * (ConfidenceScale \div 10)) \div Max(Len(query), 1)
            + (IF qa_chain THEN Confidence(20) ELSE 0)
    IN  Min(Max(overall_confidence, Confidence(30)), Confidence(95))

\* The topics of _generate_intelligent_follow_ups: the first one whose word is
\* in the query or in the response contributes three questions.
FollowUpTopics ==
    << [query |-> <<"80c">>, response |-> <<"80c">>],
       [query |-> <<"regime">>, response |-> <<"regime">>],
       [query |-> <<"hra">>, response |-> <<"hra">>],
       [query |-> <<"document">>, response |-> <<"filing">>],
       [query |-> <<"investment">>, response |-> <<"saving">>],
       [query |-> <<"capital", "gain">>, response |-> <<"capital", "gain">>],
       [query |-> <<"nri">>, response |-> <<"nri">>] >>

RECURSIVE TopicQuestions(_, _, _)
TopicQuestions(query, response, i) ==
    IF i > Len(FollowUpTopics) THEN << >>
    ELSE IF \/ Occurs(FollowUpTopics[i].query, query)
            \/ Occurs(FollowUpTopics[i].response, response)
    THEN [n \in 1..3 |-> FollowUpTopics[i].query[1]]
    ELSE TopicQuestions(query, response, i + 1)

_generate_intelligent_follow_ups(query, context, response) ==
    LET topic == TopicQuestions(query, response, 1)
        income_question ==
            IF context.has_financial_data
               /\ context.income_level \in {"high income", "lower income"}
            THEN <<context.income_level>> ELSE << >>
        regime_question ==
            IF context.has_financial_data /\ context.regime_preference # "unknown"
            THEN <<context.regime_preference>> ELSE << >>
        follow_ups == topic \o income_question \o regime_question
        all == IF follow_ups = << >> THEN <<"optimize", "deadline", "advisor">>
               ELSE follow_ups
    IN  SubSeq(all, 1, Min(3, Len(all)))

\* process_query: the response dict, and self.memories after the call. llm is
\* what the session chain does when it is called: it raises, or it returns an
\* answer (a text, possibly empty) with a number of source documents; a chain
\* that returns saves the turn in the memory it was given, kept here as the
\* (user_id, session_id) of the call that wrote it.
process_query(self, query, context, user_id, session_id, llm) ==
    LET session == session_key(user_id, session_id)
        created ==
            IF self.memories[session] = None /\ self.langchain_available
            THEN [self.memories EXCEPT ![session] = Some(<< >>)]
            ELSE self.memories
    IN  IF query.kind # "string"
        THEN [response |-> ErrorResponse, memories |-> created]
        ELSE IF ~_is_tax_related_query(query.words)
        THEN [response |-> ScopeResponse, memories |-> created]
        ELSE IF context.kind = "malformed"
        THEN [response |-> ErrorResponse, memories |-> created]
        ELSE
        LET user_context == _get_user_context_for_session(context)
            answered == self.qa_chain /\ llm.kind = "answer"
            response_data == _get_enhanced_fallback_response(query.words)
            calculated == _calculate_response_confidence(self.qa_chain, llm, query.words)
            response_text == IF answered THEN llm.answer ELSE response_data.response
            confidence ==
                IF answered
                THEN IF calculated < Confidence(30) /\ llm.answer # << >>
                     THEN Confidence(50) ELSE calculated
                ELSE response_data.confidence
            turn == [user_id |-> user_id, session_id |-> session_id]
        IN  [response |->
                 [response |-> response_text,
                  confidence |-> confidence,
                  follow_up_questions |->
                      _generate_intelligent_follow_ups(query.words, user_context,
                                                       response_text)],
             memories |->
                 IF answered
                 THEN [created EXCEPT ![session] = Some(Append(created[session][1], turn))]
                 ELSE created]

\* The response of POST /api/chatbot when the services are unavailable; a
\* message that is a list is formatted into the text like any other.
ChatbotFallbackResponse(message) ==
    [response |-> <<"i", "understand", "you", "are", "asking">>
                  \o (IF message.kind = "string" THEN message.words ELSE <<"list">>),
     confidence |-> Confidence(70),
     follow_up_questions |-> <<"groq_api_key", "documents", "regime">>]

\* POST /api/chatbot. message[:50] raises TypeError for a message that is
\* null (or a number): the handler answers 500. The service is called with
\* query, context and user_id, and no session_id.
chatbot_query(services_available, self, message, user_id, context, llm) ==
    IF message.kind = "null"
    THEN [http |-> HttpError(500, "TypeError"), memories |-> self.memories]
    ELSE IF services_available
    THEN LET call == process_query(self, message, context, user_id, "", llm)
         IN  [http |-> HttpOk(call.response), memories |-> call.memories]
    ELSE [http |-> HttpOk(ChatbotFallbackResponse(message)), memories |-> self.memories]

\* update_user_session, clear_user_session
update_user_session(self, user_id, session_id, financial_data) ==
    [self.user_sessions EXCEPT ![session_key(user_id, session_id)] =
        Some([financial_data |-> financial_data, user_id |-> user_id,
              session_id |-> session_id])]

clear_user_session(self, user_id, session_id) ==
    [self.user_sessions EXCEPT ![session_key(user_id, session_id)] = None]

---------------------------------------------------------------------------
(* The requests the model serves                                           *)

\* Salaries range over the multiples of 200000 up to MaxSalarySteps of them.
MaxSalarySteps == 8

Salaries == {k * 200000 : k \in 0..MaxSalarySteps}

Defaults == [f \in FieldNames |-> FieldDefault(f)]

\* A salaried taxpayer with the usual allowances and the common deductions.
SalariedProfile ==
    [Defaults EXCEPT !["hra"] = 240000, !["special_allowance"] = 80000,
                     !["other_allowances"] = 120000, !["section_80c"] = 150000,
                     !["section_80d"] = 25000, !["section_24"] = 200000]

\* Every field in use, the capped ones below their ceilings, odd amounts.
FullProfile ==
    [f \in FieldNames |->
        CASE f = "hra" -> 90000
          [] f = "special_allowance" -> 30000
          [] f = "other_allowances" -> 12000
          [] f = "bonus" -> 50000
          [] f = "interest_income" -> 12345
          [] f = "rental_income" -> 60000
          [] f = "capital_gains" -> 30000
          [] f = "other_income" -> 5001
          [] f = "section_80c" -> 100000
          [] f = "section_80d" -> 20000
          [] f = "section_80g" -> 5000
          [] f = "section_24" -> 150000
          [] f = "section_80ccd1b" -> 40000
          [] f = "section_80e" -> 35000
          [] f = "section_80tta" -> 8000
          [] f = "standard_deduction" -> 50000
          [] f = "professional_tax" -> 2400
          [] f = "tds_deducted" -> 45000
          [] f = "advance_tax" -> 10000
          [] OTHER -> 0]

Profiles == {Defaults, SalariedProfile, FullProfile}

\* The values a single field is set to, valid and invalid ones.
FieldValues(f) ==
    CASE f \in IncomeFields -> {0, 100000, 0 - 1000}
      [] f = "section_80c" -> {0, 150000, 160000, 200000, 0 - 1}
      [] f = "section_80d" -> {0, 25000, 30000, 0 - 1}
      [] f = "section_80ccd1b" -> {0, 50000, 60000}
      [] f = "section_80tta" -> {0, 10000, 12000}
      [] f = "professional_tax" -> {0, 2500, 3000}
      [] f = "standard_deduction" -> {0, 50000, 75000, 3000000, 0 - 50000, 0 - 500000}
      [] f \in {"section_80g", "section_24", "section_80e"} -> {0, 250000, 0 - 1}
      [] OTHER -> {0, 45000, 0 - 1}

\* A profile with a salary and one field set to a value of its own.
RawInputs ==
    UNION {{[[p EXCEPT !["basic_salary"] = s] EXCEPT ![f] = v] :
               s \in Salaries, p \in Profiles, v \in FieldValues(f)} :
           f \in FieldNames \ {"basic_salary"}}
    \cup {[p EXCEPT !["basic_salary"] = v] : p \in Profiles, v \in FieldValues("basic_salary")}

\* Requests of the two-request runs: a profile with a salary out of
\* MaxPairSalarySteps multiples of 400000 and one section field cleared.
MaxPairSalarySteps == 4

PairSalaries == {k * 400000 : k \in 0..MaxPairSalarySteps}

PairInputs ==
    {[[p EXCEPT !["basic_salary"] = s] EXCEPT ![f] = 0] :
        s \in PairSalaries, p \in {SalariedProfile, FullProfile}, f \in SectionFields \cup {"bonus"}}

PairYears == {"2024-25", "2025-26", "FY24"}

\* Assessment years of a request: the two in TAX_SLABS, one that is not and a
\* malformed one.
AssessmentYears == {"2024-25", "2023-24", "2025-26", "FY24"}

\* Slab lookups: the regime keys asked for, and the taxable incomes taxed over
\* the slabs found, MaxLookupSteps multiples of 250000.
LookupRegimes == {"old", "new", "hybrid"}

MaxLookupSteps == 7

LookupIncomes == {k * 250000 : k \in 0..MaxLookupSteps}

\* Concurrent callers of the service, and the records they pass: a profile
\* with a salary out of MaxConcurrentSalarySteps multiples of 600000.
Callers == {"a", "b"}

NoCall == [pc |-> "idle"]

MaxConcurrentSalarySteps == 2

ConcurrentInputs ==
    {[p EXCEPT !["basic_salary"] = k * 600000] :
        k \in 0..MaxConcurrentSalarySteps, p \in {SalariedProfile, FullProfile}}

Methods == {"calculate_comprehensive_tax", "compare_regimes"}

\* HTTP requests: records with a salary out of MaxApiSalarySteps multiples of
\* 300000, one record over the Section 80C ceiling, and assessment years that
\* are in the table, unknown, or not a string.
MaxApiSalarySteps == 3

ApiInputs ==
    {[p EXCEPT !["basic_salary"] = k * 300000] :
        k \in 0..MaxApiSalarySteps, p \in {SalariedProfile, FullProfile}}
    \cup {[SalariedProfile EXCEPT !["section_80c"] = 160000]}

ApiYears == {"2024-25", "2023-24", "2025-26", JsonArrayYear}

\* Uploaded text files: up to MaxTextLines lines, each a label with an amount
\* below or above the Section 80C ceiling.
MaxTextLines == 1

UploadLabels == {"ppf", "home loan interest"}

UploadAmounts == {20000, 200000}

UploadLines == [label : UploadLabels, amount : UploadAmounts]

UploadTexts == UNION {[1..n -> UploadLines] : n \in 0..MaxTextLines}

\* A text file of each content, one that is not UTF-8, a PDF, a file of a
\* type that is not allowed, and an upload without a filename.
UploadFiles ==
    {[filename |-> "upload", content_type |-> "text/plain", content |-> Some(t)] :
        t \in UploadTexts}
    \cup {[filename |-> "upload", content_type |-> "text/plain", content |-> None],
          [filename |-> "upload", content_type |-> "application/pdf", content |-> None],
          [filename |-> "upload", content_type |-> "application/zip", content |-> None],
          [filename |-> "", content_type |-> "text/plain", content |-> Some(<< >>)]}

\* Chatbot messages: null, a list, and texts that are empty, off the topic,
\* about tax in general and about a prepared topic. Contexts, and what the
\* session chain does.
ChatMessages ==
    {[kind |-> "null"], [kind |-> "array"]}
    \cup {[kind |-> "string", words |-> w] :
             w \in {<< >>, <<"hello">>, <<"tax", "refund">>, <<"new", "regime">>}}

ChatContexts ==
    {[kind |-> "none"], [kind |-> "financial_data", total_income |-> 1200000],
     [kind |-> "malformed"]}

\* The user_id of a chatbot request is absent or given.
ChatUsers == {"", "a"}

ChatAnswer ==
    [kind |-> "answer", answer |-> <<"the", "new", "regime", "has", "lower", "tax">>,
     source_documents |-> 3]

ChatLlmOutcomes ==
    {[kind |-> "raises"], [kind |-> "answer", answer |-> << >>, source_documents |-> 0],
     ChatAnswer}

\* At most MaxTurns turns are kept in the conversation memories together.
MaxTurns == 2

\* What the model returns when the extraction chain is run.
JsonObjects ==
    {[basic_salary |-> Some(600000), section_80c |-> Some(200000)],
     [basic_salary |-> None, hra |-> Some(-5), section_24 |-> Some(300000)]}

LlmOutcomes ==
    {[kind |-> "raises"], [kind |-> "text"], [kind |-> "json_number"]}
    \cup {[kind |-> "json", data |-> o] : o \in JsonObjects}

---------------------------------------------------------------------------
(* Operations                                                              *)

Init ==
    /\ raw = NoData
    /\ year = "2024-25"
    /\ status = "idle"
    /\ fd = NoData
    /\ resp = NoResult
    /\ cmp = NoResult
    /\ prev = NoResult
    /\ service = TaxCalculatorService
    /\ lookup = NoResult
    /\ calls = [c \in Callers |-> NoCall]
    /\ app = Imported
    /\ reply = NoResult
    /\ chatbot = ChatbotService
    /\ parser = DocumentParserService

\* TaxCalculationRequest(financial_data=FinancialData(**kwargs), assessment_year=y)
Construct(kwargs, y) ==
    /\ status = "idle"
    /\ raw' = kwargs
    /\ year' = y
    /\ IF FinancialDataOk(kwargs)
       THEN status' = "valid" /\ fd' = FinancialData(kwargs)
       ELSE status' = "rejected" /\ fd' = NoData
    /\ UNCHANGED <<resp, cmp, prev, service, lookup>>
    /\ UNCHANGED appVars

CalculateComprehensiveTax ==
    /\ status = "valid"
    /\ resp = NoResult
    /\ resp' = calculate_comprehensive_tax(fd, year)
    /\ service' = SelfAfterCall(service)
    /\ UNCHANGED <<raw, year, status, fd, cmp, prev, lookup>>
    /\ UNCHANGED appVars

CompareRegimes ==
    /\ status = "valid"
    /\ cmp = NoResult
    /\ cmp' = compare_regimes(fd, year)
    /\ service' = SelfAfterCall(service)
    /\ UNCHANGED <<raw, year, status, fd, resp, prev, lookup>>
    /\ UNCHANGED appVars

\* The module-level tax_calculator serves the next request once a response was
\* returned; the first request served is remembered for comparison.
NextRequest ==
    /\ status = "valid"
    /\ resp # NoResult
    /\ prev' = IF prev = NoResult THEN [fd |-> fd, year |-> year, resp |-> resp] ELSE prev
    /\ raw' = NoData
    /\ year' = "2024-25"
    /\ status' = "idle"
    /\ fd' = NoData
    /\ resp' = NoResult
    /\ cmp' = NoResult
    /\ UNCHANGED <<service, lookup>>
    /\ UNCHANGED appVars

\* config.get_tax_slabs:
\* TAX_SLABS.get(assessment_year, TAX_SLABS["2024-25"]).get(regime, [])
config_get_tax_slabs(regime, assessment_year) ==
    IF regime \in Regimes
    THEN TAX_SLABS(IF assessment_year \in TaxYears THEN assessment_year ELSE "2024-25", regime)
    ELSE << >>

LookupResult(source, regime, assessment_year, taxable_income, raised, slabs) ==
    [source |-> source,
     regime |-> regime,
     assessment_year |-> assessment_year,
     taxable_income |-> taxable_income,
     raised |-> raised,
     slabs |-> slabs,
     tax_before_cess |-> _calculate_slab_tax(taxable_income, slabs).total_tax]

\* tax_calculator.get_tax_slabs(regime, assessment_year) for a regime key given
\* by the caller, and the slab tax of an income over the slabs it returns.
ServiceSlabLookup(regime, assessment_year, taxable_income) ==
    /\ status = "idle"
    /\ prev = NoResult
    /\ lookup = NoResult
    /\ lookup' =
           IF GetTaxSlabsRaises(regime, assessment_year)
           THEN [source |-> "service", regime |-> regime,
                 assessment_year |-> assessment_year,
                 taxable_income |-> taxable_income, raised |-> TRUE]
           ELSE LookupResult("service", regime, assessment_year, taxable_income, FALSE,
                             get_tax_slabs(regime, assessment_year))
    /\ service' = SelfAfterCall(service)
    /\ UNCHANGED <<raw, year, status, fd, resp, cmp, prev>>
    /\ UNCHANGED appVars

\* The same lookup through config.get_tax_slabs.
ConfigSlabLookup(regime, assessment_year, taxable_income) ==
    /\ status = "idle"
    /\ prev = NoResult
    /\ lookup = NoResult
    /\ lookup' = LookupResult("config", regime, assessment_year, taxable_income, FALSE,
                              config_get_tax_slabs(regime, assessment_year))
    /\ UNCHANGED <<raw, year, status, fd, resp, cmp, prev, service>>
    /\ UNCHANGED appVars

Request == \E kwargs \in RawInputs, y \in AssessmentYears : Construct(kwargs, y)

Next == Request \/ CalculateComprehensiveTax \/ CompareRegimes

Spec == Init /\ [][Next]_vars

\* Two requests served one after the other by the same service.
PairRequest == \E kwargs \in PairInputs, y \in PairYears : Construct(kwargs, y)

PairNext == PairRequest \/ CalculateComprehensiveTax \/ NextRequest

PairSpec == Init /\ [][PairNext]_vars

\* Slab lookups by regime key, through the service and through config.
ServiceLookup ==
    \E r \in LookupRegimes, y \in AssessmentYears, t \in LookupIncomes :
        ServiceSlabLookup(r, y, t)

ConfigLookup ==
    \E r \in LookupRegimes, y \in AssessmentYears, t \in LookupIncomes :
        ConfigSlabLookup(r, y, t)

LookupNext == ServiceLookup \/ ConfigLookup

LookupSpec == Init /\ [][LookupNext]_vars

\* Concurrent calls on the one service. A call of calculate_comprehensive_tax
\* (compare_regimes calls it first) computes the OLD regime, then the NEW
\* regime, then builds its result; the steps of different callers interleave.
CallBegin(c, method, d, assessment_year) ==
    /\ calls[c].pc = "idle"
    /\ calls' = [calls EXCEPT ![c] =
                    [pc |-> "old", method |-> method, given |-> d, fd |-> d,
                     year |-> assessment_year]]
    /\ UNCHANGED engineVars
    /\ UNCHANGED <<app, reply, chatbot, parser>>

CallOldRegime(c) ==
    /\ calls[c].pc = "old"
    /\ calls' = [calls EXCEPT ![c] =
                    [pc |-> "new", method |-> calls[c].method, given |-> calls[c].given,
                     fd |-> DataAfterCall(calls[c].fd), year |-> calls[c].year,
                     old |-> _calculate_regime_tax(calls[c].fd, "old", calls[c].year)]]
    /\ service' = SelfAfterCall(service)
    /\ UNCHANGED <<raw, year, status, fd, resp, cmp, prev, lookup>>
    /\ UNCHANGED <<app, reply, chatbot, parser>>

CallNewRegime(c) ==
    /\ calls[c].pc = "new"
    /\ calls' = [calls EXCEPT ![c] =
                    [pc |-> "return", method |-> calls[c].method, given |-> calls[c].given,
                     fd |-> DataAfterCall(calls[c].fd), year |-> calls[c].year,
                     old |-> calls[c].old,
                     new |-> _calculate_regime_tax(calls[c].fd, "new", calls[c].year)]]
    /\ service' = SelfAfterCall(service)
    /\ UNCHANGED <<raw, year, status, fd, resp, cmp, prev, lookup>>
    /\ UNCHANGED <<app, reply, chatbot, parser>>

CallReturn(c) ==
    /\ calls[c].pc = "return"
    /\ LET result == ComprehensiveResponse(calls[c].old, calls[c].new)
       IN  calls' = [calls EXCEPT ![c] =
                        [pc |-> "done", method |-> calls[c].method,
                         given |-> calls[c].given, fd |-> calls[c].fd,
                         year |-> calls[c].year,
                         result |-> IF calls[c].method = "compare_regimes"
                                    THEN ComparisonOf(result)
                                    ELSE result]]
    /\ UNCHANGED engineVars
    /\ UNCHANGED <<app, reply, chatbot, parser>>

ConcurrentBegin ==
    \E c \in Callers, method \in Methods, d \in ConcurrentInputs :
        CallBegin(c, method, d, "2024-25")

ConcurrentOldRegime == \E c \in Callers : CallOldRegime(c)

ConcurrentNewRegime == \E c \in Callers : CallNewRegime(c)

ConcurrentReturn == \E c \in Callers : CallReturn(c)

ConcurrentNext ==
    ConcurrentBegin \/ ConcurrentOldRegime \/ ConcurrentNewRegime \/ ConcurrentReturn

ConcurrentSpec == Init /\ [][ConcurrentNext]_vars

\* main.py, "Initialize services": the three constructors run inside one try;
\* an exception (the names are unbound after a failed import) leaves
\* services_available False. The services exist only if every import of the
\* first try succeeded, the one of .models included.
ConstructServices(ok, models_importable) ==
    /\ app.phase = "imported"
    /\ ok => models_importable
    /\ app' = [app EXCEPT !.phase = "constructed", !.services_available = ok,
                          !.models_importable = models_importable]
    /\ UNCHANGED engineVars
    /\ UNCHANGED <<calls, reply, chatbot, parser>>

\* lifespan: if services_available: ... else straight to the yield
LifespanStart ==
    /\ app.phase = "constructed"
    /\ app' = [app EXCEPT !.phase = LifespanNext(app.phase, app.services_available)]
    /\ UNCHANGED engineVars
    /\ UNCHANGED <<calls, reply, chatbot, parser>>

\* The record of the initialize() calls begun, each at its first start.
Started(started, name) ==
    IF \E i \in 1..Len(started) : started[i] = name THEN started ELSE Append(started, name)

\* await document_parser.initialize()
DocumentParserInitialize(outcome) ==
    /\ app.phase = "document_parser.initialize"
    /\ app.services_available
    /\ parser' = [parser EXCEPT !.extraction_chain = (outcome = "ok")]
    /\ app' = [app EXCEPT !.phase = LifespanNext(app.phase, app.services_available),
                          !.started = Started(app.started, "document_parser")]
    /\ UNCHANGED engineVars
    /\ UNCHANGED <<calls, reply, chatbot>>

\* await chatbot.initialize()
ChatbotInitialize(outcome) ==
    /\ app.phase = "chatbot.initialize"
    /\ app.services_available
    /\ chatbot' = [chatbot EXCEPT !.qa_chain = (outcome = "ok"),
                                  !.langchain_available = (outcome # "no_langchain")]
    /\ app' = [app EXCEPT !.phase = LifespanNext(app.phase, app.services_available),
                          !.started = Started(app.started, "chatbot")]
    /\ UNCHANGED engineVars
    /\ UNCHANGED <<calls, reply, parser>>

Startup ==
    \/ \E ok \in BOOLEAN, models_importable \in BOOLEAN :
           ConstructServices(ok, models_importable)
    \/ LifespanStart
    \/ \E outcome \in InitializeOutcomes : DocumentParserInitialize(outcome)
    \/ \E outcome \in InitializeOutcomes : ChatbotInitialize(outcome)

\* A request served after startup; reply holds the endpoint, what was asked
\* and the response.
Reply(endpoint, request, http) ==
    [endpoint |-> endpoint, request |-> request, status |-> http.status, body |-> http.body]

HealthRequest ==
    /\ app.phase = "serving"
    /\ reply' = Reply("/api/health", NoData, health_check(app.services_available))
    /\ UNCHANGED engineVars
    /\ UNCHANGED <<calls, app, chatbot, parser>>

CalculateTaxRequest(financial_data, assessment_year) ==
    /\ app.phase = "serving"
    /\ reply' = Reply("/api/calculate-tax",
                      [financial_data |-> financial_data, assessment_year |-> assessment_year],
                      calculate_tax(app.services_available, financial_data, assessment_year))
    /\ service' = IF app.services_available /\ FinancialDataOk(financial_data)
                  THEN SelfAfterCall(service)
                  ELSE service
    /\ UNCHANGED <<raw, year, status, fd, resp, cmp, prev, lookup>>
    /\ UNCHANGED <<calls, app, chatbot, parser>>

TaxSlabsRequest(regime, assessment_year) ==
    /\ app.phase = "serving"
    /\ reply' = Reply("/api/tax-slabs",
                      [regime |-> regime, assessment_year |-> assessment_year],
                      api_get_tax_slabs(regime, assessment_year))
    /\ UNCHANGED engineVars
    /\ UNCHANGED <<calls, app, chatbot, parser>>

CompareRegimesRequest(financial_data, assessment_year) ==
    /\ app.phase = "serving"
    /\ reply' = Reply("/api/compare-regimes",
                      [financial_data |-> financial_data, assessment_year |-> assessment_year],
                      compare_tax_regimes(financial_data))
    /\ UNCHANGED engineVars
    /\ UNCHANGED <<calls, app, chatbot, parser>>

UploadRequest(file, llm) ==
    /\ app.phase = "serving"
    /\ reply' = Reply("/api/upload",
                      [file |-> file, llm |-> llm],
                      upload_and_parse_document(app.services_available,
                                                parser.extraction_chain,
                                                file, llm, app.models_importable))
    /\ UNCHANGED engineVars
    /\ UNCHANGED <<calls, app, chatbot, parser>>

ApiUpload ==
    \E file \in UploadFiles, llm \in LlmOutcomes : UploadRequest(file, llm)

RECURSIVE TurnsIn(_, _)
TurnsIn(memories, keys) ==
    IF keys = {} THEN 0
    ELSE LET k == CHOOSE x \in keys : TRUE
         IN  (IF memories[k] = None THEN 0 ELSE Len(memories[k][1]))
             + TurnsIn(memories, keys \ {k})

ChatbotRequest(message, user_id, context, llm) ==
    /\ app.phase = "serving"
    /\ LET out == chatbot_query(app.services_available, chatbot, message, user_id,
                                context, llm)
       IN  /\ TurnsIn(out.memories, SessionKeys) <= MaxTurns
           /\ reply' = Reply("/api/chatbot",
                             [message |-> message, user_id |-> user_id,
                              context |-> context, llm |-> llm],
                             out.http)
           /\ chatbot' = [chatbot EXCEPT !.memories = out.memories]
    /\ UNCHANGED engineVars
    /\ UNCHANGED <<calls, app, parser>>

\* A call of ChatbotService.process_query with a session_id
ProcessQuery(query, context, user_id, session_id, llm) ==
    /\ app.phase = "serving"
    /\ app.services_available
    /\ LET out == process_query(chatbot, query, context, user_id, session_id, llm)
       IN  /\ TurnsIn(out.memories, SessionKeys) <= MaxTurns
           /\ chatbot' = [chatbot EXCEPT !.memories = out.memories]
    /\ UNCHANGED engineVars
    /\ UNCHANGED <<calls, app, reply, parser>>

UpdateUserSession(user_id, session_id, financial_data) ==
    /\ app.phase = "serving"
    /\ app.services_available
    /\ chatbot' = [chatbot EXCEPT
                     !.user_sessions =
                         update_user_session(chatbot, user_id, session_id, financial_data)]
    /\ UNCHANGED engineVars
    /\ UNCHANGED <<calls, app, reply, parser>>

ClearUserSession(user_id, session_id) ==
    /\ app.phase = "serving"
    /\ app.services_available
    /\ chatbot' = [chatbot EXCEPT
                     !.user_sessions = clear_user_session(chatbot, user_id, session_id)]
    /\ UNCHANGED engineVars
    /\ UNCHANGED <<calls, app, reply, parser>>

ApiCalculateTax ==
    \E d \in ApiInputs, y \in ApiYears : CalculateTaxRequest(d, y)

ApiTaxSlabs ==
    \E r \in LookupRegimes, y \in ApiYears \ {JsonArrayYear} : TaxSlabsRequest(r, y)

ApiCompareRegimes ==
    \E d \in ApiInputs, y \in ApiYears \ {JsonArrayYear} : CompareRegimesRequest(d, y)

ApiNext ==
    \/ Startup \/ HealthRequest \/ ApiCalculateTax \/ ApiTaxSlabs \/ ApiCompareRegimes
    \/ ApiUpload

ChatRequests ==
    \E message \in ChatMessages, user_id \in ChatUsers, context \in ChatContexts,
       llm \in ChatLlmOutcomes :
        ChatbotRequest(message, user_id, context, llm)

ChatNext == Startup \/ ChatRequests

ChatSpec == Init /\ [][ChatNext]_vars

\* Sessions: requests to the endpoint from each user, and calls of the
\* service's methods for each (user_id, session_id), all with a question
\* about tax that the chain answers.
TaxQuestion == [kind |-> "string", words |-> <<"tax", "refund">>]

SessionRequests ==
    \E user_id \in UserIds :
        ChatbotRequest(TaxQuestion, user_id, [kind |-> "none"], ChatAnswer)

SessionQueries ==
    \E user_id \in UserIds, session_id \in SessionIds :
        ProcessQuery(TaxQuestion, [kind |-> "none"], user_id, session_id, ChatAnswer)

SessionUpdates ==
    \E user_id \in UserIds, session_id \in SessionIds :
        UpdateUserSession(user_id, session_id, [total_income |-> 1200000])

SessionClears ==
    \E user_id \in UserIds, session_id \in SessionIds :
        ClearUserSession(user_id, session_id)

SessionNext ==
    Startup \/ SessionRequests \/ SessionQueries \/ SessionUpdates \/ SessionClears

SessionSpec == Init /\ [][SessionNext]_vars

\* The server runs the lifespan handler to its yield before it accepts a
\* request, and every awaited initialize() returns: startup steps are taken
\* while they are enabled.
ApiSpec == Init /\ [][ApiNext]_vars /\ WF_vars(Startup)

---------------------------------------------------------------------------
(* Properties                                                              *)

CappedFields == {f \in FieldNames : FieldLe(f) # None}

Ceiling(f) ==
    CASE f = "section_80c" -> 150000
      [] f = "section_80d" -> 25000
      [] f = "section_80ccd1b" -> 50000
      [] f = "section_80tta" -> 10000
      [] f = "professional_tax" -> 2500

Constructed == status # "idle"

OverCeiling(kwargs) == {f \in CappedFields : kwargs[f] > Ceiling(f)}

Negative(kwargs) == {f \in FieldNames : kwargs[f] < 0}

\* C1: constructing a FinancialData with a capped field above its ceiling (and
\* nothing else wrong) succeeds and stores exactly the ceiling in that field.
C1_OverCeilingIsClamped ==
    (Constructed /\ OverCeiling(raw) # {} /\ Negative(raw) = {})
        => /\ status = "valid"
           /\ \A f \in OverCeiling(raw) : fd[f] = Ceiling(f)

\* C2: every field of a constructed FinancialData is >= 0, and a negative input
\* (with nothing else wrong) is stored as 0 instead of being rejected.
C2_NegativeIsClampedToZero ==
    /\ status = "valid" => \A f \in FieldNames : fd[f] >= 0
    /\ (Constructed /\ Negative(raw) # {} /\ OverCeiling(raw) = {})
           => /\ status = "valid"
              /\ \A f \in Negative(raw) : fd[f] = 0

\* rate/100 * max(0, min(taxable_income, slab.max) - slab.min), the top slab unbounded
ReferenceSlabTax(taxable_income, slab) ==
    LET upper == IF slab.max = None THEN taxable_income ELSE Min(taxable_income, slab.max[1])
    IN  RateFraction(slab.rate) * Max(0, upper - slab.min)

RECURSIVE ReferenceTaxFrom(_, _, _)
ReferenceTaxFrom(taxable_income, slabs, i) ==
    IF i > Len(slabs) THEN 0
    ELSE ReferenceSlabTax(taxable_income, slabs[i]) + ReferenceTaxFrom(taxable_income, slabs, i + 1)

ReferenceTax(taxable_income, slabs) == ReferenceTaxFrom(taxable_income, slabs, 1)

Details(response, regime) ==
    IF regime = "old" THEN response.old_regime ELSE response.new_regime

Calculated == resp # NoResult

\* C3: for each regime the tax before cess of the slab walk equals the reference
\* progressive tax of the taxable income over the regime's slab table.
C3_SlabWalkIsProgressiveTax ==
    Calculated =>
        \A r \in Regimes :
            Details(resp, r).tax_before_cess
                = ReferenceTax(Details(resp, r).taxable_income, get_tax_slabs(r, year))

\* C3 witness: a calculated income that reaches the top slab of both regimes.
C3_Witness ==
    /\ Calculated
    /\ resp.old_regime.taxable_income > 1000000
    /\ resp.new_regime.taxable_income > 1500000
    /\ Len(resp.new_regime.tax_slabs) = 6
    /\ resp.new_regime.tax_before_cess > 0

\* C4: under the OLD regime total_deductions is the standard deduction plus the
\* capped 80C, 80D, 80CCD(1B) and 80TTA plus 80G, 24, 80E and professional tax;
\* the 80D term (what is left after all other terms) never exceeds 25000.
C4_OldRegimeDeductions ==
    Calculated =>
        LET others == fd["standard_deduction"] + Min(fd["section_80c"], 150000)
                      + fd["section_80g"] + fd["section_24"]
                      + Min(fd["section_80ccd1b"], 50000) + fd["section_80e"]
                      + Min(fd["section_80tta"], 10000) + fd["professional_tax"]
            term80d == resp.old_regime.total_deductions - others
        IN  /\ term80d = Min(fd["section_80d"], 25000)
            /\ term80d <= 25000

\* C4 witness: a calculation over a record with every deduction field in use,
\* and one with 80D at the individual cap.
C4_Witness ==
    /\ Calculated
    /\ \A f \in SectionFields \cup CommonFields : fd[f] > 0
    /\ fd["section_80d"] = 25000
    /\ resp.old_regime.total_deductions > 400000

\* C5: under the NEW regime total_deductions is standard_deduction plus
\* professional_tax, and two records that differ only in section fields get the
\* same NEW-regime total_deductions, taxable_income and total_tax.
SameBut(d1, d2, fields) == \A f \in FieldNames \ fields : d1[f] = d2[f]

BothCalculated == prev # NoResult /\ Calculated

C5_NewRegimeIgnoresSections ==
    /\ Calculated =>
           resp.new_regime.total_deductions
               = fd["standard_deduction"] + fd["professional_tax"]
    /\ (BothCalculated /\ prev.year = year /\ SameBut(prev.fd, fd, SectionFields)) =>
           /\ prev.resp.new_regime.total_deductions = resp.new_regime.total_deductions
           /\ prev.resp.new_regime.taxable_income = resp.new_regime.taxable_income
           /\ prev.resp.new_regime.total_tax = resp.new_regime.total_tax

\* C5 witness: two served records that differ in Section 80C only, with tax due
\* under the NEW regime and different tax under the OLD one.
C5_Witness ==
    /\ BothCalculated
    /\ prev.year = year
    /\ SameBut(prev.fd, fd, SectionFields)
    /\ prev.fd["section_80c"] # fd["section_80c"]
    /\ resp.new_regime.total_tax > 0
    /\ prev.resp.old_regime.total_tax # resp.old_regime.total_tax

\* C6: for both regimes taxable_income is max(0, gross_income - total_deductions)
\* and never negative.
C6_TaxableIncomeNonNegative ==
    Calculated =>
        \A r \in Regimes :
            LET t == Details(resp, r)
                net == t.gross_income - t.total_deductions
            IN  /\ t.taxable_income >= 0
                /\ t.taxable_income = (IF net > 0 THEN net ELSE 0)

\* C6 witness: deductions larger than the gross income, under both regimes.
C6_Witness ==
    /\ Calculated
    /\ resp.old_regime.gross_income > 0
    /\ \A r \in Regimes : Details(resp, r).total_deductions > Details(resp, r).gross_income
    /\ \A r \in Regimes : Details(resp, r).taxable_income = 0

RECURSIVE SumTaxAmounts(_, _)
SumTaxAmounts(slab_details, i) ==
    IF i > Len(slab_details) THEN 0
    ELSE slab_details[i].tax_amount + SumTaxAmounts(slab_details, i + 1)

\* C7: for both regimes cess is 4% (one twenty-fifth) of tax_before_cess, which is
\* the unrounded sum of the slab taxes, and total_tax = tax_before_cess + cess.
C7_CessIsFourPercent ==
    Calculated =>
        \A r \in Regimes :
            LET t == Details(resp, r)
            IN  /\ t.cess * 25 = t.tax_before_cess
                /\ t.tax_before_cess = SumTaxAmounts(t.tax_slabs, 1)
                /\ t.total_tax = t.tax_before_cess + t.cess

\* C7 witness: a tax that is no whole number of rupees, summed over three slabs.
C7_Witness ==
    /\ Calculated
    /\ Len(resp.old_regime.tax_slabs) >= 3
    /\ resp.old_regime.tax_before_cess % Scale # 0
    /\ resp.old_regime.cess > 0

\* C8: OLD is recommended exactly when old.total_tax <= new.total_tax, the
\* recommended regime never has the higher total_tax, savings_amount is
\* |old.total_tax - new.total_tax| (never negative, 0 exactly on a tie), and
\* compare_regimes reports the same recommendation and amount.
C8_RecommendationAndSavings ==
    /\ Calculated =>
           LET old_tax == resp.old_regime.total_tax
               new_tax == resp.new_regime.total_tax
           IN  /\ (resp.recommended_regime = "old") = (old_tax <= new_tax)
               /\ resp.recommended_regime \in Regimes
               /\ Details(resp, resp.recommended_regime).total_tax <= Min(old_tax, new_tax)
               /\ resp.savings_amount = Abs(old_tax - new_tax)
               /\ resp.savings_amount >= 0
               /\ (resp.savings_amount = 0) = (old_tax = new_tax)
    /\ cmp # NoResult =>
           /\ (cmp.recommended = "old") = (cmp.old_regime_tax <= cmp.new_regime_tax)
           /\ cmp.recommended \in Regimes
           /\ cmp.difference = Abs(cmp.old_regime_tax - cmp.new_regime_tax)
    /\ (Calculated /\ cmp # NoResult) =>
           /\ cmp.old_regime_tax = resp.old_regime.total_tax
           /\ cmp.new_regime_tax = resp.new_regime.total_tax
           /\ cmp.recommended = resp.recommended_regime
           /\ cmp.difference = resp.savings_amount

\* C8 witnesses: both operations ran on one record and recommend NEW with a
\* positive saving; both ran on a record whose regimes tie.
C8_Witness ==
    /\ Calculated
    /\ cmp # NoResult
    /\ resp.recommended_regime = "new"
    /\ cmp.recommended = "new"
    /\ resp.savings_amount > 0

C8_TieWitness ==
    /\ Calculated
    /\ cmp # NoResult
    /\ resp.old_regime.total_tax = resp.new_regime.total_tax

\* C9: for each regime, of two taxable incomes taxed over the same slab table the
\* larger one never has the smaller tax_before_cess or total_tax.
C9_SlabTaxMonotonic ==
    BothCalculated =>
        \A r \in Regimes :
            LET a == Details(prev.resp, r)
                b == Details(resp, r)
            IN  (/\ get_tax_slabs(r, prev.year) = get_tax_slabs(r, year)
                 /\ a.taxable_income <= b.taxable_income)
                    => /\ a.tax_before_cess <= b.tax_before_cess
                       /\ a.total_tax <= b.total_tax

\* C9 witness: two served taxable incomes in different slabs, the larger one
\* with the larger tax, under both regimes.
C9_Witness ==
    /\ BothCalculated
    /\ \A r \in Regimes :
           /\ Details(prev.resp, r).taxable_income < Details(resp, r).taxable_income
           /\ Len(Details(prev.resp, r).tax_slabs) < Len(Details(resp, r).tax_slabs)
           /\ 0 < Details(prev.resp, r).tax_before_cess
           /\ Details(prev.resp, r).tax_before_cess < Details(resp, r).tax_before_cess

\* C10: total_deductions(NEW) <= total_deductions(OLD), strictly when a section
\* field is non-zero, and so taxable_income(OLD) <= taxable_income(NEW).
C10_NewDeductsNoMoreThanOld ==
    Calculated =>
        /\ resp.new_regime.total_deductions <= resp.old_regime.total_deductions
        /\ (\E f \in SectionFields : fd[f] # 0)
               => resp.new_regime.total_deductions < resp.old_regime.total_deductions
        /\ resp.old_regime.taxable_income <= resp.new_regime.taxable_income

\* C10 witnesses: a record with a single non-zero section field, and one with none.
C10_Witness ==
    /\ Calculated
    /\ Cardinality({f \in SectionFields : fd[f] # 0}) = 1
    /\ resp.new_regime.total_deductions < resp.old_regime.total_deductions
    /\ resp.old_regime.taxable_income < resp.new_regime.taxable_income

\* C11: effective_tax_rate is total_tax / gross_income * 100 rounded to two
\* decimals (the hundredth of a percent nearest to the quotient) when
\* gross_income > 0, and 0 when gross_income is 0.
C11_EffectiveTaxRate ==
    Calculated =>
        \A r \in Regimes :
            LET t == Details(resp, r)
                g == t.gross_income
                k == (100 * 100) \div Scale
                q == t.total_tax \div g
                rest == t.total_tax % g
                e == t.effective_tax_rate - k * q
            IN  IF g = 0 THEN t.effective_tax_rate = 0
                ELSE 2 * Abs(e * g - k * rest) <= g

\* C11 witnesses: a rate that was rounded up, and a zero gross income.
C11_Witness ==
    /\ Calculated
    /\ resp.old_regime.gross_income > 0
    /\ resp.old_regime.total_tax > 0
    /\ LET t == resp.old_regime
           k == (100 * 100) \div Scale
           e == t.effective_tax_rate - k * (t.total_tax \div t.gross_income)
       IN  e * t.gross_income > k * (t.total_tax % t.gross_income)

C11_ZeroIncomeWitness ==
    /\ Calculated
    /\ resp.old_regime.gross_income = 0
    /\ resp.old_regime.effective_tax_rate = 0

\* C12: refund_or_payable = total_tax - (tds_deducted + advance_tax), positive exactly
\* when less than total_tax was paid and negative exactly when more was paid; the
\* tds_deducted and advance_tax of the result are the record's.
C12_RefundOrPayable ==
    Calculated =>
        \A r \in Regimes :
            LET t == Details(resp, r)
                paid == (fd["tds_deducted"] + fd["advance_tax"]) * Scale
            IN  /\ t.refund_or_payable = t.total_tax - paid
                /\ (t.refund_or_payable > 0) = (paid < t.total_tax)
                /\ (t.refund_or_payable < 0) = (paid > t.total_tax)
                /\ t.tds_deducted = fd["tds_deducted"]
                /\ t.advance_tax = fd["advance_tax"]

\* C12 witness: TDS and advance tax paid, a refund under the OLD regime and tax
\* still payable under the NEW one.
C12_Witness ==
    /\ Calculated
    /\ fd["tds_deducted"] > 0
    /\ fd["advance_tax"] > 0
    /\ resp.old_regime.refund_or_payable < 0
    /\ resp.new_regime.refund_or_payable > 0

\* C13: gross_salary is the sum of the five salary fields and total_income that
\* sum plus the four other income fields (so neither reads a deduction or
\* tax-paid field); both are >= 0 and both regimes report total_income as
\* gross_income.
C13_GrossSalaryAndTotalIncome ==
    status = "valid" =>
        LET salary == fd["basic_salary"] + fd["hra"] + fd["special_allowance"]
                      + fd["other_allowances"] + fd["bonus"]
            income == salary + fd["interest_income"] + fd["rental_income"]
                      + fd["capital_gains"] + fd["other_income"]
        IN  /\ gross_salary(fd) = salary
            /\ total_income(fd) = income
            /\ salary >= 0
            /\ income >= 0
            /\ Calculated => \A r \in Regimes : Details(resp, r).gross_income = income

\* C13 witness: a calculation over a record with every income field in use and
\* deductions and taxes paid besides.
C13_Witness ==
    /\ Calculated
    /\ \A f \in IncomeFields : fd[f] > 0
    /\ fd["section_80c"] > 0
    /\ fd["tds_deducted"] > 0
    /\ resp.new_regime.gross_income > gross_salary(fd)

\* C14: for an assessment year that is no key of the slab table the lookup
\* returns the 2024-25 slabs of the regime, and the result of the calculation
\* is the result for "2024-25".
C14_UnknownYearFallsBack ==
    (Calculated /\ year \notin TaxYears) =>
        /\ \A r \in Regimes : get_tax_slabs(r, year) = TAX_SLABS("2024-25", r)
        /\ (prev # NoResult /\ prev.year = "2024-25" /\ prev.fd = fd) => resp = prev.resp

\* C14 witness: one record served for "2024-25" and then for a malformed year,
\* with tax due.
C14_Witness ==
    /\ BothCalculated
    /\ prev.year = "2024-25"
    /\ year = "FY24"
    /\ prev.fd = fd
    /\ resp.old_regime.total_tax > 0
    /\ resp.new_regime.total_tax > 0

\* C15: a slab lookup for a regime key that is neither "old" nor "new" raises
\* nothing and returns an empty slab list, over which the slab tax is 0.
C15_UnknownRegimeYieldsNoSlabs ==
    (lookup # NoResult /\ lookup.regime \notin Regimes) =>
        /\ ~lookup.raised
        /\ lookup.slabs = << >>
        /\ lookup.tax_before_cess = 0

\* The record of the worked example.
ExampleData == [SalariedProfile EXCEPT !["basic_salary"] = 600000]

RECURSIVE TaxAmounts(_, _)
TaxAmounts(slab_details, i) ==
    IF i > Len(slab_details) THEN << >>
    ELSE << slab_details[i].tax_amount >> \o TaxAmounts(slab_details, i + 1)

\* C16: the worked example under the OLD regime of 2024-25: gross_income 1040000,
\* total_deductions 425000, taxable_income 615000, slab taxes 0 / 12500 / 23000,
\* tax_before_cess 35500, cess 1420, total_tax 36920.
C16_OldRegimeExample ==
    (Calculated /\ fd = ExampleData /\ year = "2024-25") =>
        LET t == resp.old_regime
        IN  /\ t.gross_income = 1040000
            /\ t.total_deductions = 425000
            /\ t.taxable_income = 615000
            /\ TaxAmounts(t.tax_slabs, 1) = << 0, 12500 * Scale, 23000 * Scale >>
            /\ t.tax_before_cess = 35500 * Scale
            /\ t.cess = 1420 * Scale
            /\ t.total_tax = 36920 * Scale

\* C16 witness: the example record was calculated for 2024-25.
C16_Witness ==
    /\ Calculated
    /\ fd = ExampleData
    /\ year = "2024-25"
    /\ resp.old_regime.regime = "old"
    /\ Len(resp.old_regime.tax_slabs) = 3

\* C17: the worked example under the NEW regime of 2024-25: total_deductions
\* 50000, taxable_income 990000, slab taxes 0 / 15000 / 30000 / 13500,
\* tax_before_cess 58500, cess 2340, total_tax 60840; OLD is recommended with
\* savings_amount 23920.
C17_NewRegimeExample ==
    /\ (Calculated /\ fd = ExampleData /\ year = "2024-25") =>
           LET t == resp.new_regime
           IN  /\ t.total_deductions = 50000
               /\ t.taxable_income = 990000
               /\ TaxAmounts(t.tax_slabs, 1)
                      = << 0, 15000 * Scale, 30000 * Scale, 13500 * Scale >>
               /\ t.tax_before_cess = 58500 * Scale
               /\ t.cess = 2340 * Scale
               /\ t.total_tax = 60840 * Scale
               /\ resp.recommended_regime = "old"
               /\ resp.savings_amount = 23920 * Scale
    /\ (cmp # NoResult /\ fd = ExampleData /\ year = "2024-25") =>
           /\ cmp.recommended = "old"
           /\ cmp.difference = 23920 * Scale

\* C17 witness: the example record was calculated and compared for 2024-25.
C17_Witness ==
    /\ Calculated
    /\ cmp # NoResult
    /\ fd = ExampleData
    /\ year = "2024-25"
    /\ Len(resp.new_regime.tax_slabs) = 4
    /\ cmp.reason = "old_saves"

\* C18: with every income field 0, both regimes have taxable_income,
\* tax_before_cess, cess and total_tax 0, no slab detail and effective_tax_rate
\* 0, whatever the deduction fields of the record hold.
C18_ZeroIncomeZeroTax ==
    (Calculated /\ \A f \in IncomeFields : fd[f] = 0) =>
        \A r \in Regimes :
            LET t == Details(resp, r)
            IN  /\ t.taxable_income = 0
                /\ t.tax_before_cess = 0
                /\ t.cess = 0
                /\ t.total_tax = 0
                /\ t.tax_slabs = << >>
                /\ t.effective_tax_rate = 0

\* A slab list starts at 0, is ascending and contiguous, every slab but the last
\* has a finite max above its min, and the last one alone is unbounded.
WellFormedSlabs(slabs) ==
    /\ Len(slabs) >= 1
    /\ slabs[1].min = 0
    /\ \A i \in 1..(Len(slabs) - 1) :
           /\ slabs[i].max # None
           /\ slabs[i].max[1] > slabs[i].min
           /\ slabs[i + 1].min = slabs[i].max[1]
    /\ slabs[Len(slabs)].max = None
    /\ Cardinality({i \in 1..Len(slabs) : slabs[i].max = None}) = 1

\* C19: every slab list of the static table, for each assessment year and each
\* regime, is well formed, and so is every slab list a calculation looks up.
C19_SlabTablesWellFormed ==
    /\ \A y \in TaxYears : \A r \in Regimes : WellFormedSlabs(TAX_SLABS(y, r))
    /\ Calculated => \A r \in Regimes : WellFormedSlabs(get_tax_slabs(r, year))

\* C19 witness: a calculation for 2023-24 that walked every slab of both slab
\* lists, each detail starting where the one before ended.
C19_Witness ==
    /\ Calculated
    /\ year = "2023-24"
    /\ \A r \in Regimes :
           LET d == Details(resp, r).tax_slabs
           IN  /\ Len(d) = Len(TAX_SLABS(year, r))
               /\ \A i \in 1..(Len(d) - 1) : d[i].max_amount = Some(d[i + 1].min_amount)
               /\ d[Len(d)].max_amount = None

AmountInSlab(taxable_income, slabs, i) ==
    (IF slabs[i].max = None THEN taxable_income
     ELSE Min(taxable_income, slabs[i].max[1])) - slabs[i].min

RECURSIVE SumAmountsInSlabs(_, _, _, _)
SumAmountsInSlabs(taxable_income, slabs, i, n) ==
    IF i > n THEN 0
    ELSE AmountInSlab(taxable_income, slabs, i)
         + SumAmountsInSlabs(taxable_income, slabs, i + 1, n)

\* C25: the slab detail list has, in slab order, exactly one entry for each slab
\* that holds a positive part of the taxable income and none for the slabs above;
\* the parts sum to taxable_income, each entry's tax_amount is its part at the
\* slab's rate, and the tax_amounts sum to tax_before_cess.
C25_SlabDetailList ==
    Calculated =>
        \A r \in Regimes :
            LET t == Details(resp, r)
                d == t.tax_slabs
                slabs == get_tax_slabs(r, year)
                ti == t.taxable_income
            IN  /\ Len(d) = Cardinality({i \in 1..Len(slabs) : ti > slabs[i].min})
                /\ \A i \in 1..Len(d) :
                       /\ d[i].min_amount = slabs[i].min
                       /\ d[i].max_amount = slabs[i].max
                       /\ d[i].rate = slabs[i].rate
                       /\ AmountInSlab(ti, slabs, i) > 0
                       /\ d[i].tax_amount
                              = AmountInSlab(ti, slabs, i) * slabs[i].rate * (Scale \div 100)
                /\ SumAmountsInSlabs(ti, slabs, 1, Len(d)) = ti
                /\ SumTaxAmounts(d, 1) = t.tax_before_cess

\* C25 witness: a walk that stopped below the unbounded slab under the OLD
\* regime and went further under the NEW one, with tax due.
C25_Witness ==
    /\ Calculated
    /\ Len(resp.old_regime.tax_slabs) \in 2..3
    /\ Len(resp.new_regime.tax_slabs) > Len(resp.old_regime.tax_slabs)
    /\ resp.old_regime.tax_before_cess > 0

\* C25 witness: no taxable income, no entry.
C25_EmptyWitness ==
    /\ Calculated
    /\ resp.old_regime.taxable_income = 0
    /\ resp.old_regime.tax_slabs = << >>
    /\ resp.new_regime.tax_slabs # << >>

\* What a method returns for a record and a year when it runs alone.
ResultAlone(method, d, assessment_year) ==
    IF method = "compare_regimes"
    THEN compare_regimes(d, assessment_year)
    ELSE calculate_comprehensive_tax(d, assessment_year)

C30_StartupCompletes ==
    /\ <>(app.phase = "serving")
    /\ [](\A i \in 1..Len(app.started) :
              app.started[i] = "chatbot" =>
                  \E j \in 1..(i - 1) : app.started[j] = "document_parser")
    /\ []((reply # NoResult /\ reply.endpoint = "/api/health") =>
              /\ reply.status = 200
              /\ reply.body.services.document_parser = app.services_available
              /\ reply.body.services.tax_calculator = app.services_available
              /\ reply.body.services.chatbot = app.services_available)

\* C30 witnesses: a health check answered after a startup in which both
\* initialize() calls failed, and one answered without the services.
C30_Witness ==
    /\ app.phase = "serving"
    /\ app.services_available
    /\ app.started = << "document_parser", "chatbot" >>
    /\ ~parser.extraction_chain
    /\ ~chatbot.qa_chain
    /\ reply # NoResult
    /\ reply.endpoint = "/api/health"
    /\ reply.body.services.chatbot

C30_UnavailableWitness ==
    /\ app.phase = "serving"
    /\ ~app.services_available
    /\ app.started = << >>
    /\ reply # NoResult
    /\ reply.endpoint = "/api/health"
    /\ ~reply.body.services.chatbot

\* C22: POST /api/calculate-tax answers every request whose financial_data is
\* within the limits of FinancialData with status 200 and a body that holds
\* old_regime, new_regime and recommended_regime, with and without the services.
C22_CalculateTaxAnswers ==
    (/\ reply # NoResult
     /\ reply.endpoint = "/api/calculate-tax"
     /\ FinancialDataOk(reply.request.financial_data)) =>
        /\ reply.status = 200
        /\ {"old_regime", "new_regime", "recommended_regime"} \subseteq DOMAIN reply.body

\* C27: GET /api/tax-slabs/{regime} returns the slab list of the configuration
\* lookup get_tax_slabs(regime, assessment_year): the old list for "old", the
\* new list for "new", the empty list for any other regime.
C27_TaxSlabsEndpointIsConfigLookup ==
    (reply # NoResult /\ reply.endpoint = "/api/tax-slabs") =>
        /\ reply.status = 200
        /\ reply.body.slabs
               = config_get_tax_slabs(reply.request.regime, reply.request.assessment_year)

\* C28: POST /api/compare-regimes returns the old_regime_tax, new_regime_tax,
\* difference and recommended that compare_regimes computes for the
\* financial_data and assessment_year of the request.
C28_CompareEndpointIsCompareRegimes ==
    (/\ reply # NoResult
     /\ reply.endpoint = "/api/compare-regimes"
     /\ FinancialDataOk(reply.request.financial_data)) =>
        LET comparison == compare_regimes(FinancialData(reply.request.financial_data),
                                          reply.request.assessment_year)
        IN  /\ reply.status = 200
            /\ reply.body.old_regime_tax = comparison.old_regime_tax
            /\ reply.body.new_regime_tax = comparison.new_regime_tax
            /\ reply.body.difference = comparison.difference
            /\ reply.body.recommended = comparison.recommended

\* C26: POST /api/upload answers a request with no filename, or with a content
\* type outside the six allowed types, with HTTP status 400.
C26_UploadRejectsWith400 ==
    (/\ reply # NoResult
     /\ reply.endpoint = "/api/upload"
     /\ \/ reply.request.file.filename = ""
        \/ reply.request.file.content_type \notin allowed_types) =>
        reply.status = 400

\* An upload that reached parse_document: the services are available and the
\* file passed the two checks of the handler.
Parsed ==
    /\ reply # NoResult
    /\ reply.endpoint = "/api/upload"
    /\ app.services_available
    /\ reply.request.file.filename # ""
    /\ reply.request.file.content_type \in allowed_types

ParsedText ==
    _extract_text(reply.request.file.content, reply.request.file.filename,
                  reply.request.file.content_type)

\* The extraction chain is missing, raises, or returns text that is not JSON.
AiExtractionFails ==
    \/ ~parser.extraction_chain
    \/ reply.request.llm.kind \in {"raises", "text"}

C24_FailureWitness ==
    /\ Parsed
    /\ ~parser.extraction_chain
    /\ ~reply.body.success
    /\ reply.body.confidence_score = 0

\* C23: every POST /api/chatbot is answered with status 200, a response text
\* that is not empty, a confidence within [0, 1] and at most 3 follow-up
\* questions, whatever the message and whatever the LLM chain does.
C23_ChatbotNeverFails ==
    (reply # NoResult /\ reply.endpoint = "/api/chatbot") =>
        /\ reply.status = 200
        /\ reply.body.response # << >>
        /\ reply.body.confidence >= 0
        /\ reply.body.confidence <= ConfidenceScale
        /\ Len(reply.body.follow_up_questions) <= 3

\* C29: a conversation memory never holds the turns of two different users,
\* and a session stored for one (user_id, session_id) pair is found under the
\* key of no other pair: no other pair reads or clears it.
C29_SessionsAreIsolated ==
    \A k \in SessionKeys :
        /\ chatbot.memories[k] # None =>
               \A i, j \in 1..Len(chatbot.memories[k][1]) :
                   LET first == chatbot.memories[k][1][i]
                       second == chatbot.memories[k][1][j]
                   IN  (first.user_id # "" /\ second.user_id # "") => first = second
        /\ (chatbot.user_sessions[k] # None /\ k # "anonymous") =>
               \A u \in UserIds \ {""}, sid \in SessionIds \ {""} :
                   session_key(u, sid) = k =>
                       /\ u = chatbot.user_sessions[k][1].user_id
                       /\ sid = chatbot.user_sessions[k][1].session_id

===========================================================================
